---------------------------- MODULE Spec2Model ----------------------------
(***************************************************************************)
(* Model of the learning-planner agent: the tool-calling loop run_agent of *)
(* orchestrator.py with its three tools (calendar_tool.py, twilio_tool.py, *)
(* the GitHub MCP client) and the repository ranker of githubmcptool.py.   *)
(*                                                                         *)
(* Python values are encoded as records of one shape so that any two of    *)
(* them can be compared: [type, items, bool].                              *)
(***************************************************************************)
EXTENDS Integers, Sequences, FiniteSets, TLC

VARIABLES
    pc,              \* position in run_agent: "start", "loop", "calls", "done"
    response,        \* the model response held in the local `response`
    iter,            \* number of completed iterations of `for _ in range(15)`
    idx,             \* position in `for call in response.function_calls`
    tool_responses,  \* the local list tool_responses
    status,          \* value returned by run_agent (NotReturned while running)
    sent,            \* messages passed to session.send_message, in order
    executed,        \* executed[i]: times tool_func was invoked for call i
    trace,           \* outcome of each call handled so far in this iteration
    smsSent,         \* Twilio messages.create calls made
    smsDelivered,    \* of which returned a message (send returned True)
    calendar,        \* upstream Google Calendar items of today
    calPc,           \* calendar_tool run: "idle" or "returned"
    calUpstream,     \* whether events().list().execute() succeeded in that run
    calResult,       \* value returned by get_today_events in that run
    repos,           \* upstream GitHub search items for the query
    rankPc,          \* ranker run: "idle" or "returned"
    searchOutcome,   \* what requests.get did: "200", "error_status", "exception"
    max_results,     \* the argument max_results of the run
    analyzed,        \* analyzed_repos of the run
    rankResult,      \* value returned by get_top_recommendations
    rankPicked,      \* rankPicked[j]: position in analyzed of rankResult[j]
    GITHUB_SEARCHES  \* the Prometheus counter, by status label

orchVars == <<pc, response, iter, idx, tool_responses, status, sent, executed,
              trace, smsSent, smsDelivered>>
calVars  == <<calPc, calUpstream, calResult>>
rankVars == <<repos, rankPc, searchOutcome, max_results, analyzed, rankResult,
              rankPicked, GITHUB_SEARCHES>>
envVars  == <<calendar, calVars, rankVars>>
vars     == <<orchVars, envVars>>

---------------------------------------------------------------------------
(* Bounds of the model *)

MaxCalls == 2     \* tool calls in one model response
MaxEvents == 2    \* upstream calendar items
MaxRepos == 2     \* upstream search items
MaxK == 2         \* largest max_results passed to the ranker

---------------------------------------------------------------------------
(* Python values *)

PyNone == [type |-> "NoneType", items |-> <<>>, bool |-> FALSE]
PyList(s) == [type |-> "list", items |-> s, bool |-> FALSE]
PyBool(b) == [type |-> "bool", items |-> <<>>, bool |-> b]

Absent == "<absent>"   \* a key that a dict does not have

---------------------------------------------------------------------------
(* calendar_tool.py *)

\* start_time = event['start'].get('dateTime', event['start'].get('date'))
StartTime(event) ==
    IF event.dateTime # Absent THEN event.dateTime
    ELSE IF event.date # Absent THEN event.date
    ELSE "None"

\* the dict appended to processed_events for one upstream item
ProcessedEvent(event) ==
    [title          |-> event.summary,
     start_time_utc |-> StartTime(event),
     link           |-> IF event.htmlLink # Absent THEN event.htmlLink ELSE "N/A"]

\* event['summary'] raises KeyError when the item has no summary
RaisesKeyError(items) == \E i \in DOMAIN items : items[i].summary = Absent

ProcessedEvents(items) == [i \in DOMAIN items |-> ProcessedEvent(items[i])]

\* CalendarEventTool.get_today_events: the except clause returns []; the try
\* block builds processed_events and the function ends without returning it.
get_today_events(items, upstreamOk) ==
    IF ~upstreamOk \/ RaisesKeyError(items)
    THEN PyList(<<>>)
    ELSE PyNone

---------------------------------------------------------------------------
(* twilio_tool.py *)

\* TwilioNotifierTool.send_sms_notification: True when messages.create
\* returns, False when it raises
send_sms_notification(twilioOk) == PyBool(twilioOk)

---------------------------------------------------------------------------
(* orchestrator.py *)

IterationLimit == 15

SuccessStatus == "Plan successfully sent to LEARNER_PHONE_NUMBER."
FailureStatus == "Agent planning failed: Loop iteration limit exceeded."
NotReturned == "<running>"

\* GitHubMcpClient.get_top_github_recommendations: response.json() when the
\* request succeeds; a RequestException is logged and the function ends
\* without a return statement
get_top_github_recommendations(httpOk) ==
    IF httpOk THEN PyList(<<[name |-> "user/repo", score |-> 10]>>) ELSE PyNone

ToolNames == {"get_today_events", "get_top_github_recommendations",
              "send_sms_notification"}

\* keyword parameters of each registered callable, and those without default
Params ==
    [n \in ToolNames |->
        CASE n = "get_today_events" -> {}
          [] n = "get_top_github_recommendations" -> {"event_title", "max_results"}
          [] n = "send_sms_notification" -> {"recipient", "message_body"}]

Required ==
    [n \in ToolNames |->
        CASE n = "get_today_events" -> {}
          [] n = "get_top_github_recommendations" -> {"event_title"}
          [] n = "send_sms_notification" -> {"recipient", "message_body"}]

\* TOOL_EXECUTOR_MAP.get(tool_name) is not None: exact match on the key
TOOL_EXECUTOR_MAP(tool_name) == tool_name \in ToolNames

\* tool_func(**args) binds: no unexpected keyword, no missing required one
Binds(tool_name, args) ==
    Required[tool_name] \subseteq args /\ args \subseteq Params[tool_name]

\* names the model may put in a call: the registered ones and one that is not
CallNames == ToolNames \cup {"get_weather"}

ArgSets == {{}, {"event_title"}, {"recipient", "message_body"}}

Calls == [name : CallNames, args : ArgSets]

CallSeqs == UNION {[1..n -> Calls] : n \in 1..MaxCalls}

\* a model response: function calls, or text only
Responses ==
    {[function_calls |-> cs, text |-> "None"] : cs \in CallSeqs}
    \cup {[function_calls |-> <<>>, text |-> "Here is today's plan."]}

InitialPrompt == [kind |-> "prompt", parts |-> <<>>]

\* the dict passed as response= in the except clause
FailedPayload(message) == [error |-> message, status |-> "failed"]

\* types.Part.from_function_response(name=..., response=...)
FunctionResponse(tool_name, payload) == [name |-> tool_name, response |-> payload]


\* the call being handled by the inner for loop
Call == response.function_calls[idx]

\* mutant: the except clause logs the error and records nothing
OnToolExceptionDropped(rs, tool_name, message) == rs

\* the except clause: the failure payload is appended, the loop goes on
OnToolException(rs, tool_name, message) ==
    Append(rs, FunctionResponse(tool_name, FailedPayload(message)))

\* tool_responses.append(...) of the try block
OnToolReturn(rs, tool_name, tool_result) ==
    Append(rs, FunctionResponse(tool_name, tool_result))

\* mutant: the terminal check compares with another name
IsNotificationToolMisspelt(tool_name) == tool_name = "send_sms"

\* if tool_name == 'send_sms_notification'
IsNotificationTool(tool_name) == tool_name = "send_sms_notification"

\* mutant: the list is created once, before the loop, and never emptied
KeepToolResponses(rs) == rs

\* tool_responses = [] at the head of an iteration that has function calls
NewToolResponses(rs) == <<>>

\* after the append of the try block: the notification tool ends the run with
\* the success string, any other tool lets the inner loop go on
AfterToolReturn(tool_name) ==
    IF IsNotificationTool(tool_name)
    THEN /\ status' = SuccessStatus
         /\ pc' = "done"
         /\ idx' = idx
    ELSE /\ idx' = idx + 1
         /\ UNCHANGED <<pc, status>>

\* response = session.send_message(initial_prompt)
SendInitialPrompt ==
    /\ pc = "start"
    /\ \E r \in Responses : response' = r
    /\ sent' = Append(sent, InitialPrompt)
    /\ pc' = "loop"
    /\ UNCHANGED <<iter, idx, tool_responses, status, executed, trace,
                   smsSent, smsDelivered>>
    /\ UNCHANGED envVars

\* if response.function_calls: tool_responses = []
BeginIteration ==
    /\ pc = "loop"
    /\ iter < IterationLimit
    /\ response.function_calls # <<>>
    /\ tool_responses' = NewToolResponses(tool_responses)
    /\ trace' = <<>>
    /\ idx' = 1
    /\ pc' = "calls"
    /\ UNCHANGED <<response, iter, status, sent, executed, smsSent, smsDelivered>>
    /\ UNCHANGED envVars

\* else: return response.text
ReturnText ==
    /\ pc = "loop"
    /\ iter < IterationLimit
    /\ response.function_calls = <<>>
    /\ status' = response.text
    /\ pc' = "done"
    /\ UNCHANGED <<response, iter, idx, tool_responses, sent, executed, trace,
                   smsSent, smsDelivered>>
    /\ UNCHANGED envVars

\* the for loop is over: return the failure string
ReturnExhausted ==
    /\ pc = "loop"
    /\ iter = IterationLimit
    /\ status' = FailureStatus
    /\ pc' = "done"
    /\ UNCHANGED <<response, iter, idx, tool_responses, sent, executed, trace,
                   smsSent, smsDelivered>>
    /\ UNCHANGED envVars

\* tool_func is None: logger.warning, nothing is invoked or appended
SkipUnknownTool ==
    /\ pc = "calls"
    /\ idx <= Len(response.function_calls)
    /\ ~TOOL_EXECUTOR_MAP(Call.name)
    /\ trace' = Append(trace, "skipped")
    /\ idx' = idx + 1
    /\ UNCHANGED <<pc, response, iter, tool_responses, status, sent, executed,
                   smsSent, smsDelivered>>
    /\ UNCHANGED envVars

\* str(e) of the exceptions a registered tool can raise
ErrorMessages == {"TypeError", "ValueError"}

\* what tool_func(**args) can raise: TypeError when the arguments do not bind;
\* get_today_events and send_sms_notification catch every exception of their
\* body, get_top_github_recommendations catches RequestException only, and
\* response.json() raises ValueError on a body that is not JSON where the
\* installed requests does not derive that error from RequestException
Raisable(call) ==
    IF ~Binds(call.name, call.args) THEN {"TypeError"}
    ELSE IF call.name = "get_top_github_recommendations" THEN {"ValueError"}
    ELSE {}

\* tool_func(**args) raises
ToolRaises ==
    /\ pc = "calls"
    /\ idx <= Len(response.function_calls)
    /\ TOOL_EXECUTOR_MAP(Call.name)
    /\ executed' = [executed EXCEPT ![idx] = @ + 1]
    /\ \E message \in Raisable(Call) :
          tool_responses' = OnToolException(tool_responses, Call.name, message)
    /\ trace' = Append(trace, "raised")
    /\ idx' = idx + 1
    /\ UNCHANGED <<pc, response, iter, status, sent, smsSent, smsDelivered>>
    /\ UNCHANGED envVars

\* get_today_events() returns
CalendarToolReturns ==
    /\ pc = "calls"
    /\ idx <= Len(response.function_calls)
    /\ Call.name = "get_today_events"
    /\ Binds(Call.name, Call.args)
    /\ executed' = [executed EXCEPT ![idx] = @ + 1]
    /\ \E upstreamOk \in BOOLEAN :
          tool_responses' = OnToolReturn(tool_responses, Call.name,
                                         get_today_events(calendar, upstreamOk))
    /\ trace' = Append(trace, "returned")
    /\ AfterToolReturn(Call.name)
    /\ UNCHANGED <<response, iter, sent, smsSent, smsDelivered>>
    /\ UNCHANGED envVars

\* get_top_github_recommendations(event_title=...) returns
GithubToolReturns ==
    /\ pc = "calls"
    /\ idx <= Len(response.function_calls)
    /\ Call.name = "get_top_github_recommendations"
    /\ Binds(Call.name, Call.args)
    /\ executed' = [executed EXCEPT ![idx] = @ + 1]
    /\ \E httpOk \in BOOLEAN :
          tool_responses' = OnToolReturn(tool_responses, Call.name,
                                         get_top_github_recommendations(httpOk))
    /\ trace' = Append(trace, "returned")
    /\ AfterToolReturn(Call.name)
    /\ UNCHANGED <<response, iter, sent, smsSent, smsDelivered>>
    /\ UNCHANGED envVars

\* send_sms_notification(recipient=..., message_body=...) returns; the result is
\* appended and, the tool being the notification tool, run_agent returns
NotificationToolReturns ==
    /\ pc = "calls"
    /\ idx <= Len(response.function_calls)
    /\ Call.name = "send_sms_notification"
    /\ Binds(Call.name, Call.args)
    /\ executed' = [executed EXCEPT ![idx] = @ + 1]
    /\ \E twilioOk \in BOOLEAN :
          /\ smsSent' = smsSent + 1
          /\ smsDelivered' = smsDelivered + (IF twilioOk THEN 1 ELSE 0)
          /\ tool_responses' = OnToolReturn(tool_responses, Call.name,
                                            send_sms_notification(twilioOk))
    /\ trace' = Append(trace, "returned")
    /\ AfterToolReturn(Call.name)
    /\ UNCHANGED <<response, iter, sent>>
    /\ UNCHANGED envVars

\* mutant: the iteration ends with response = session.send_message(tool_responses)
EndIterationFeedsBack ==
    /\ pc = "calls"
    /\ idx > Len(response.function_calls)
    /\ iter' = iter + 1
    /\ sent' = Append(sent, [kind |-> "function_responses", parts |-> tool_responses])
    /\ \E r \in Responses : response' = r
    /\ pc' = "loop"
    /\ UNCHANGED <<idx, tool_responses, status, executed, trace, smsSent, smsDelivered>>
    /\ UNCHANGED envVars

\* the inner for loop is over; the outer loop takes its next iteration with
\* the same `response` (tool_responses is not sent to the session)
EndIteration ==
    /\ pc = "calls"
    /\ idx > Len(response.function_calls)
    /\ iter' = iter + 1
    /\ pc' = "loop"
    /\ UNCHANGED <<response, idx, tool_responses, status, sent, executed, trace,
                   smsSent, smsDelivered>>
    /\ UNCHANGED envVars

InitOrchestrator ==
    /\ pc = "start"
    /\ response = [function_calls |-> <<>>, text |-> "None"]
    /\ iter = 0
    /\ idx = 0
    /\ tool_responses = <<>>
    /\ status = NotReturned
    /\ sent = <<>>
    /\ executed = [i \in 1..MaxCalls |-> 0]
    /\ trace = <<>>
    /\ smsSent = 0
    /\ smsDelivered = 0

\* calendars the orchestrator runs against: none, or one event today
SampleEvent == [summary |-> "Intro to Kubernetes",
                dateTime |-> "2026-11-03T09:00:00Z", date |-> Absent,
                htmlLink |-> "https://calendar/e1"]

IdleCalendarTool == calPc = "idle" /\ calUpstream = "idle" /\ calResult = PyNone

IdleRanker ==
    /\ repos = <<>>
    /\ rankPc = "idle"
    /\ searchOutcome = "idle"
    /\ max_results = 0
    /\ analyzed = <<>>
    /\ rankResult = <<>>
    /\ rankPicked = <<>>
    /\ GITHUB_SEARCHES = [success |-> 0, error |-> 0]

Init ==
    /\ InitOrchestrator
    /\ calendar \in {<<>>, <<SampleEvent>>}
    /\ IdleCalendarTool
    /\ IdleRanker

Next ==
    \/ SendInitialPrompt
    \/ BeginIteration
    \/ ReturnText
    \/ ReturnExhausted
    \/ SkipUnknownTool
    \/ ToolRaises
    \/ CalendarToolReturns
    \/ GithubToolReturns
    \/ NotificationToolReturns
    \/ EndIteration

Spec == Init /\ [][Next]_vars

---------------------------------------------------------------------------
(* Properties of run_agent *)

FunctionCalls == response.function_calls

IsResolvable(call) == call.name \in ToolNames

\* the calls of the current iteration handled so far
Handled == SubSeq(FunctionCalls, 1, Len(trace))

\* number of handled calls among the first j that produced a result
ResultsUpTo(j) == Cardinality({k \in 1..j : trace[k] # "skipped"})

NamesOf(rs) == [i \in DOMAIN rs |-> rs[i].name]

InTurn == pc = "calls" \/ (pc = "loop" /\ iter > 0)

\* C1: once send_sms_notification has returned True, run_agent has returned the
\* success string, and from then on no message is sent to the model and no
\* tool is invoked, whatever is left of the turn and of the 15 iterations.
C1_NotificationSuccessEndsRun ==
    [][/\ smsDelivered' > smsDelivered => (pc' = "done" /\ status' = SuccessStatus)
       /\ smsDelivered > 0 =>
             /\ pc = "done"
             /\ UNCHANGED <<sent, executed, smsSent, status, response>>]_vars

\* the SMS was delivered by the first of two calls in the first iteration
C1_Witness ==
    /\ pc = "done"
    /\ status = SuccessStatus
    /\ smsDelivered = 1
    /\ iter = 0
    /\ idx = 1
    /\ Len(FunctionCalls) = 2
    /\ IsResolvable(FunctionCalls[2])
    /\ executed[2] = 0
    /\ Len(sent) = 1

\* C2: when an iteration with tool calls is over and the run goes on, its
\* results have been sent to the model as the next message.
C2_ResultsFedBack ==
    (pc = "loop" /\ iter >= 1) =>
        /\ Len(sent) = iter + 1
        /\ sent[Len(sent)] = [kind |-> "function_responses", parts |-> tool_responses]

\* C3: a run that returned the success string made exactly one SMS send, and
\* that send returned True.
C3_SuccessImpliesDelivered ==
    (pc = "done" /\ status = SuccessStatus) => (smsSent = 1 /\ smsDelivered = 1)

\* C4: a run in which no notification send succeeded and that was not ended by
\* a text-only response returns the failure string, which is not the success
\* string.
C4_ExhaustionYieldsFailure ==
    /\ FailureStatus # SuccessStatus
    /\ (pc = "done" /\ smsDelivered = 0 /\ FunctionCalls # <<>>) =>
           status = FailureStatus

\* C5: every call of the iteration whose tool raised has exactly one result, at
\* its place in tool_responses, and that result is the failed payload; the
\* inner loop is then at the next call and the run has not returned the
\* success string because of it.
C5_ToolFailureIsRecorded ==
    /\ Len(tool_responses) = ResultsUpTo(Len(trace))
    /\ \A j \in DOMAIN trace :
          trace[j] = "raised" =>
              /\ \E message \in ErrorMessages :
                    tool_responses[ResultsUpTo(j)] =
                        FunctionResponse(FunctionCalls[j].name, FailedPayload(message))
              /\ executed[j] >= 1
    /\ pc = "calls" => idx = Len(trace) + 1
    /\ (trace # <<>> /\ trace[Len(trace)] = "raised") =>
           status \in {NotReturned, FailureStatus}

\* the notification tool raised on the first call and the second call was
\* handled after it
C5_Witness ==
    /\ pc = "calls"
    /\ Len(trace) = 2
    /\ trace[1] = "raised"
    /\ FunctionCalls[1].name = "send_sms_notification"
    /\ trace[2] = "returned"
    /\ Len(tool_responses) = 2
    /\ tool_responses[1].response = FailedPayload("TypeError")
    /\ status = NotReturned

\* C6: in an iteration, tool_responses holds one result per handled call whose
\* name is registered, in call order; a call with an unregistered name is
\* skipped without any invocation, and when the iteration is over every call
\* of the response has been handled.
C6_OneResultPerResolvableCall ==
    InTurn =>
        /\ NamesOf(tool_responses) = NamesOf(SelectSeq(Handled, IsResolvable))
        /\ \A j \in DOMAIN trace :
              /\ trace[j] = "skipped" <=> ~IsResolvable(FunctionCalls[j])
              /\ ~IsResolvable(FunctionCalls[j]) => executed[j] = 0
        /\ pc = "loop" => Len(trace) = Len(FunctionCalls)

\* an unregistered call came first and the registered call after it produced
\* the only result of the iteration
C6_Witness ==
    /\ pc = "loop"
    /\ iter = 2
    /\ Len(FunctionCalls) = 2
    /\ ~IsResolvable(FunctionCalls[1])
    /\ IsResolvable(FunctionCalls[2])
    /\ Len(tool_responses) = 1
    /\ tool_responses[1].name = FunctionCalls[2].name
    /\ executed[1] = 0

\* C7: with no event today and a first response that asks for get_today_events
\* only, the run does not end by exhausting the iterations.
C7_EmptyCalendarTerminates ==
    (/\ pc = "done"
     /\ calendar = <<>>
     /\ FunctionCalls = <<[name |-> "get_today_events", args |-> {}]>>) =>
        status # FailureStatus

\* C10: when the first response has tool calls and none for the notification
\* tool, only the initial prompt is ever sent, a registered call has been invoked
\* once per iteration, and the run ends after 15 iterations with the failure
\* string, each registered call invoked 15 times and no other call at all.
C10_SameResponseEveryIteration ==
    (/\ pc # "start"
     /\ FunctionCalls # <<>>
     /\ \A i \in DOMAIN FunctionCalls : FunctionCalls[i].name # "send_sms_notification") =>
        /\ Len(sent) = 1
        /\ status \in {NotReturned, FailureStatus}
        /\ \A i \in DOMAIN FunctionCalls :
              IF IsResolvable(FunctionCalls[i])
              THEN executed[i] \in {iter, iter + 1}
              ELSE executed[i] = 0
        /\ pc = "done" =>
              /\ status = FailureStatus
              /\ iter = IterationLimit
              /\ \A i \in DOMAIN FunctionCalls :
                    IsResolvable(FunctionCalls[i]) => executed[i] = IterationLimit

\* the calendar tool alone was asked for and has run 15 times
C10_Witness ==
    /\ pc = "done"
    /\ status = FailureStatus
    /\ FunctionCalls = <<[name |-> "get_today_events", args |-> {}]>>
    /\ executed[1] = IterationLimit
    /\ Len(sent) = 1

---------------------------------------------------------------------------
(* One call of CalendarEventTool.get_today_events *)

\* upstream items: with or without a summary, timed or all-day, with or
\* without a link
RawEvents ==
    [summary  : {"Intro to Kubernetes", Absent},
     dateTime : {"2026-11-03T09:00:00Z", Absent},
     date     : {"2026-11-03", Absent},
     htmlLink : {"https://calendar/e1", Absent}]

Calendars == UNION {[1..n -> RawEvents] : n \in 0..MaxEvents}

CallGetTodayEvents ==
    /\ calPc = "idle"
    /\ \E upstreamOk \in BOOLEAN :
          /\ calUpstream' = IF upstreamOk THEN "ok" ELSE "error"
          /\ calResult' = get_today_events(calendar, upstreamOk)
    /\ calPc' = "returned"
    /\ UNCHANGED <<orchVars, calendar, rankVars>>

InitCalendar ==
    /\ InitOrchestrator
    /\ calendar \in Calendars
    /\ IdleCalendarTool
    /\ IdleRanker

NextCalendar == CallGetTodayEvents

SpecCalendar == InitCalendar /\ [][NextCalendar]_vars

\* C8: get_today_events returns a list; one Event per upstream item, in upstream
\* order, when the fetch succeeded, and the empty list when the fetch failed or
\* there is no event.
C8_ReturnsEventSequence ==
    calPc = "returned" =>
        /\ calResult.type = "list"
        /\ calUpstream = "ok" => calResult.items = ProcessedEvents(calendar)
        /\ (calUpstream = "error" \/ calendar = <<>>) => calResult.items = <<>>

---------------------------------------------------------------------------
(* githubmcptool.py.  A str is a sequence of one-character strings, so that
   lower(), upper() and the substring test `in` are computed. *)

UpperCase == <<"A", "B", "C", "D", "E", "F", "G", "H", "I", "J", "K", "L", "M",
               "N", "O", "P", "Q", "R", "S", "T", "U", "V", "W", "X", "Y", "Z">>
LowerCase == <<"a", "b", "c", "d", "e", "f", "g", "h", "i", "j", "k", "l", "m",
               "n", "o", "p", "q", "r", "s", "t", "u", "v", "w", "x", "y", "z">>

\* str.lower() and str.upper()
Lower(str) ==
    [i \in DOMAIN str |->
        IF \E k \in DOMAIN UpperCase : UpperCase[k] = str[i]
        THEN LowerCase[CHOOSE k \in DOMAIN UpperCase : UpperCase[k] = str[i]]
        ELSE str[i]]

Upper(str) ==
    [i \in DOMAIN str |->
        IF \E k \in DOMAIN LowerCase : LowerCase[k] = str[i]
        THEN UpperCase[CHOOSE k \in DOMAIN LowerCase : LowerCase[k] = str[i]]
        ELSE str[i]]

\* sub in str
Contains(str, sub) ==
    \E i \in 1..(Len(str) - Len(sub) + 1) : SubSeq(str, i, i + Len(sub) - 1) = sub

hands_on_keywords ==
    {<<"t", "u", "t", "o", "r", "i", "a", "l">>,
     <<"e", "x", "a", "m", "p", "l", "e">>,
     <<"h", "a", "n", "d", "s", "-", "o", "n">>,
     <<"p", "r", "a", "c", "t", "i", "c", "a", "l">>,
     <<"g", "u", "i", "d", "e">>,
     <<"w", "o", "r", "k", "s", "h", "o", "p">>,
     <<"p", "r", "o", "j", "e", "c", "t">>}

README == <<"R", "E", "A", "D", "M", "E">>

NoDescription == <<"<None>">>   \* the description is None

Min(a, b) == IF a <= b THEN a ELSE b

\* GitHubMcpTool.search_repositories: the items on status 200, [] on any other
\* status and on an exception
search_repositories(items, outcome) == IF outcome = "200" THEN items ELSE <<>>

\* GitHubMcpTool.analyze_repository.  The score is kept in hundredths, so that
\* stars / 100 and forks / 100 are exact: score = 100 * x['score'].
analyze_repository(repo) ==
    LET description ==
            IF repo.description = NoDescription THEN <<>> ELSE Lower(repo.description)
        score ==
            Min(repo.stargazers_count, 5000)
            + Min(repo.forks_count, 2000)
            + 500 * Cardinality({kw \in hands_on_keywords : Contains(description, kw)})
            + (IF repo.has_wiki THEN 500 ELSE 0)
            + (IF Contains(Upper(description), README) THEN 500 ELSE 0)
    IN  [name        |-> repo.full_name,
         url         |-> repo.html_url,
         description |-> repo.description,
         stars       |-> repo.stargazers_count,
         forks       |-> repo.forks_count,
         language    |-> repo.language,
         score       |-> score,
         updated_at  |-> repo.updated_at]

\* mutant: an element is put before the elements of equal score already placed
InsertBeforeTies(order, a, i) ==
    LET before == SelectSeq(order, LAMBDA j : a[j].score > a[i].score)
        after  == SelectSeq(order, LAMBDA j : a[j].score <= a[i].score)
    IN  before \o <<i>> \o after

\* position i of a placed in `order`, positions sorted by score descending:
\* after every position whose score is not smaller (sorted is stable, with
\* reverse=True too)
InsertByScore(order, a, i) ==
    LET before == SelectSeq(order, LAMBDA j : a[j].score >= a[i].score)
        after  == SelectSeq(order, LAMBDA j : a[j].score < a[i].score)
    IN  before \o <<i>> \o after

RECURSIVE SortedOrder(_, _)
\* sorted(analyzed_repos, key=lambda x: x['score'], reverse=True), as the
\* positions of the first n elements of a in sorted order
SortedOrder(a, n) ==
    IF n = 0 THEN <<>> ELSE InsertByScore(SortedOrder(a, n - 1), a, n)

\* a sequence s[:k] for k >= 0
Slice(s, k) == SubSeq(s, 1, Min(k, Len(s)))

\* an upstream search item
RawRepos ==
    [full_name        : {"user/repo"},
     html_url         : {"https://github.com/user/repo"},
     description      : {NoDescription,
                         <<"A", " ", "G", "u", "i", "d", "e">>,
                         <<"R", "e", "a", "d", "m", "e">>},
     stargazers_count : {100, 6000},
     forks_count      : {0, 2500},
     has_wiki         : BOOLEAN,
     language         : {"Python"},
     updated_at       : {"2026-01-01T00:00:00Z"}]

\* the search asks for sort=stars, order=desc
SearchItems ==
    {items \in UNION {[1..n -> RawRepos] : n \in 0..MaxRepos} :
        \A i, j \in DOMAIN items :
            i < j => items[i].stargazers_count >= items[j].stargazers_count}

RECURSIVE AnalyzeAll(_)
\* [self.analyze_repository(repo) for repo in repos]
AnalyzeAll(found) ==
    IF found = <<>> THEN <<>>
    ELSE Append(AnalyzeAll(SubSeq(found, 1, Len(found) - 1)),
                analyze_repository(found[Len(found)]))

\* GitHubMcpTool.get_top_recommendations(event_title, k), the endpoint having
\* checked 0 < k
GetTopRecommendations ==
    /\ rankPc = "idle"
    /\ \E k \in 1..MaxK, outcome \in {"200", "error_status", "exception"} :
          /\ max_results' = k
          /\ searchOutcome' = outcome
          /\ GITHUB_SEARCHES' =
                 IF outcome = "200"
                 THEN [GITHUB_SEARCHES EXCEPT !.success = @ + 1]
                 ELSE [GITHUB_SEARCHES EXCEPT !.error = @ + 1]
          /\ analyzed' = AnalyzeAll(search_repositories(repos, outcome))
          /\ rankPicked' = Slice(SortedOrder(analyzed', Len(analyzed')), k)
          /\ rankResult' = [j \in DOMAIN rankPicked' |-> analyzed'[rankPicked'[j]]]
    /\ rankPc' = "returned"
    /\ UNCHANGED <<orchVars, calendar, calVars, repos>>

InitRanker ==
    /\ InitOrchestrator
    /\ calendar = <<>>
    /\ IdleCalendarTool
    /\ repos \in SearchItems
    /\ rankPc = "idle"
    /\ searchOutcome = "idle"
    /\ max_results = 0
    /\ analyzed = <<>>
    /\ rankResult = <<>>
    /\ rankPicked = <<>>
    /\ GITHUB_SEARCHES = [success |-> 0, error |-> 0]

NextRanker == GetTopRecommendations

SpecRanker == InitRanker /\ [][NextRanker]_vars

\* the result has at most max_results elements, in descending order of score,
\* elements of equal score in the order of analyzed_repos, and it is empty when
\* the search failed
RankedTopK ==
    /\ Len(rankResult) <= max_results
    /\ Len(rankPicked) = Len(rankResult)
    /\ \A j \in DOMAIN rankResult :
          /\ rankPicked[j] \in DOMAIN analyzed
          /\ rankResult[j] = analyzed[rankPicked[j]]
    /\ \A i, j \in DOMAIN rankResult :
          i < j =>
             /\ rankResult[i].score >= rankResult[j].score
             /\ rankResult[i].score = rankResult[j].score => rankPicked[i] < rankPicked[j]
    /\ searchOutcome # "200" => rankResult = <<>>
    /\ searchOutcome = "200" => analyzed = AnalyzeAll(repos)

\* C9 as stated: the result is moreover a subsequence of analyzed_repos, its
\* elements in the order they have there.
C9_SubsequenceOfAnalyzed ==
    rankPc = "returned" =>
        /\ RankedTopK
        /\ \A i, j \in DOMAIN rankPicked : i < j => rankPicked[i] < rankPicked[j]

\* C9 as amended: the result is ranked as above and its elements are elements
\* of analyzed_repos at pairwise different positions.
C9_RankedSelectionOfAnalyzed ==
    rankPc = "returned" =>
        /\ RankedTopK
        /\ \A i, j \in DOMAIN rankPicked : i # j => rankPicked[i] # rankPicked[j]

\* two results: the first came second in the search, with the higher score
C9_Witness ==
    /\ rankPc = "returned"
    /\ searchOutcome = "200"
    /\ Len(analyzed) = 2
    /\ max_results = 2
    /\ rankPicked = <<2, 1>>
    /\ rankResult[1].score > rankResult[2].score

=============================================================================
